---- MODULE Spec2Model ----
(***************************************************************************)
(* Model of the autoopt distributions package (src/autoopt/distributions). *)
(*                                                                         *)
(* Numbers are exact rationals [n, d] in lowest terms with d > 0.  The     *)
(* transcendental functions numpy.log and numpy.exp are tabulated to three *)
(* decimals on the half-integer grid the model draws its inputs from.  A   *)
(* Gaussian density is kept in closed form (GaussValue).                   *)
(*                                                                         *)
(* The model covers __init__, pdf and mean of every distribution class and *)
(* resolves each call along the class's method resolution order; a method *)
(* no class overrides resolves to the abstract Distribution method, which  *)
(* raises NotImplementedError.  The plotting hooks (plot, _plot_start,     *)
(* _plot_end) and the instantiation check of abc.ABCMeta are not modelled. *)
(***************************************************************************)
EXTENDS Integers, Sequences, FiniteSets, TLC

\* ---------------------------------------------------------------- bounds
\* Numeric inputs (min_value, max_value, loc, x) range over h/2, |h| <= MaxH.
MaxH == 4
\* Quantisation steps q range over k/2, 1 <= k <= MaxQ.
MaxQ == 4
\* scale ranges over 1..MaxScale.
MaxScale == 2
\* Weights of a choices mapping range over 0..MaxWeight.
MaxWeight == 2
\* A choices mapping / list has at most MaxChoices entries.
MaxChoices == 3
\* The caller mutates mappings at most MaxMutations times in a run.
MaxMutations == 1
\* add_node is called on pipelines of fewer than MaxNodes nodes.
MaxNodes == 2
\* the most parameters an __init__ takes besides self
MaxArgs == 2

\* ------------------------------------------------------------- rationals
Abs(i) == IF i < 0 THEN -i ELSE i

RECURSIVE GCD(_, _)
GCD(a, b) == IF b = 0 THEN a ELSE GCD(b, a % b)

\* The rational n/d (d # 0) in lowest terms with a positive denominator.
R(n, d) ==
    LET g == GCD(Abs(n), Abs(d))
        s == IF d < 0 THEN -1 ELSE 1
    IN  [n |-> (s * n) \div g, d |-> (s * d) \div g]

Zero == R(0, 1)
One == R(1, 1)
FromInt(i) == R(i, 1)

RAdd(a, b) == R(a.n * b.d + b.n * a.d, a.d * b.d)
RSub(a, b) == R(a.n * b.d - b.n * a.d, a.d * b.d)
RMul(a, b) == R(a.n * b.n, a.d * b.d)
RNeg(a) == R(-a.n, a.d)
\* a / b.  The divisors met at run time are numpy.float64 values, for which
\* a / 0 with a # 0 is not an exception but the infinity of a's sign: the
\* fraction with denominator 0.
RDiv(a, b) == R(a.n * b.d, a.d * b.n)
RLeq(a, b) == a.n * b.d <= b.n * a.d
RLt(a, b) == a.n * b.d < b.n * a.d

\* Rounding to the nearest integer with ties going up.
NumpyRound_half_up(a) ==
    LET f == a.n \div a.d
        r == a.n - f * a.d
    IN  IF 2 * r < a.d THEN f ELSE f + 1

\* numpy.round of a rational: nearest integer, ties to the even integer.
NumpyRound(a) ==
    LET f == a.n \div a.d
        r == a.n - f * a.d
    IN  IF 2 * r < a.d THEN f
        ELSE IF 2 * r > a.d THEN f + 1
        ELSE IF f % 2 = 0 THEN f ELSE f + 1

\* numpy.log on the positive half-integer grid, to three decimals.
LnTable ==
    << -693, 0, 405, 693, 916, 1099, 1253, 1386, 1504, 1609,
       1705, 1792, 1872, 1946, 2015, 2079, 2140, 2197, 2251, 2303,
       2351, 2398, 2442, 2485, 2526, 2565, 2603, 2639, 2674, 2708,
       2741, 2773, 2803, 2833, 2862, 2890, 2918, 2944, 2970, 2996 >>

\* numpy.log at 1000 and 1000.5: so far out, two neighbours of the grid have
\* the same logarithm at the precision kept (as neighbouring float64 values
\* around 1e16 have).
LnLarge == << 6908, 6908 >>

NumpyLog(a) ==
    LET h == a.n * (2 \div a.d)
    IN  R(IF h <= Len(LnTable) THEN LnTable[h] ELSE LnLarge[h - 1999], 1000)

\* numpy.exp on the half-integer grid from -5 to 10, to three decimals.
ExpTable ==
    << 7, 11, 18, 30, 50, 82, 135, 223, 368, 607, 1000,
       1649, 2718, 4482, 7389, 12182, 20086, 33115, 54598, 90017, 148413,
       244692, 403429, 665142, 1096633, 1808042, 2980958, 4914769, 8103084,
       13359727, 22026466 >>

NumpyExp(a) == R(ExpTable[a.n * (2 \div a.d) + 11], 1000)

\* The value 1/sqrt(pi * sqrtArg) * e^expArg / over, in closed form.
GaussValue(sqrtArg, expArg, over) ==
    [sqrtArg |-> sqrtArg, expArg |-> expArg, over |-> over]

\* ----------------------------------------------------------- input sets
Vals == {R(h, 2) : h \in -MaxH..MaxH}
\* 1000 and 1000.5, for the distributions that take logarithms of their bounds.
LargeVals == {R(2000, 2), R(2001, 2)}
LogVals == Vals \cup LargeVals
Qs == {R(k, 2) : k \in 1..MaxQ}
\* A bare QMixin takes any non-zero step, negative ones included.
SignedQs == {R(k, 2) : k \in (-MaxQ..MaxQ) \ {0}}
Scales == {FromInt(s) : s \in 1..MaxScale}
Keys == {"A", "B", "C"}
Queries == Keys \cup {"not_present"}
Weights == 0..MaxWeight

\* ------------------------------------------------- classes and dispatch
\* The linearised method resolution order of each class.
MRO(cls) ==
    CASE cls = "Uniform" -> <<"Uniform", "Distribution">>
      [] cls = "QUniform" -> <<"QUniform", "Uniform", "Distribution", "QMixin">>
      [] cls = "LogUniform" -> <<"LogUniform", "Uniform", "Distribution">>
      [] cls = "QLogUniform" ->
            <<"QLogUniform", "LogUniform", "Uniform", "Distribution", "QMixin">>
      [] cls = "Normal" -> <<"Normal", "Distribution">>
      [] cls = "QNormal" -> <<"QNormal", "Normal", "Distribution", "QMixin">>
      [] cls = "LogNormal" -> <<"LogNormal", "Normal", "Distribution">>
      [] cls = "QLogNormal" ->
            <<"QLogNormal", "LogNormal", "Normal", "Distribution", "QMixin">>
      [] cls = "WeightedChoice" -> <<"WeightedChoice", "Distribution">>
      [] cls = "Choice" -> <<"Choice", "WeightedChoice", "Distribution">>

\* Which of pdf and mean the body of each class defines.
Defines(c) ==
    CASE c = "Distribution" -> {"pdf", "mean"}
      [] c = "QMixin" -> {}
      [] c = "Uniform" -> {"pdf", "mean"}
      [] c = "QUniform" -> {"pdf", "mean"}
      [] c = "LogUniform" -> {"pdf", "mean"}
      [] c = "QLogUniform" -> {"pdf", "mean"}
      [] c = "Normal" -> {"pdf"}
      [] c = "QNormal" -> {"pdf"}
      [] c = "LogNormal" -> {"pdf", "mean"}
      [] c = "QLogNormal" -> {"pdf", "mean"}
      [] c = "WeightedChoice" -> {"pdf"}
      [] c = "Choice" -> {}

\* The first class of seq, from position i on, that defines meth.
FirstDefiner(seq, i, meth) ==
    LET js == {j \in i..Len(seq) : meth \in Defines(seq[j])}
    IN  seq[CHOOSE j \in js : \A k \in js : j <= k]

\* self.meth: the class whose body runs for an instance of cls.
Resolve(cls, meth) == FirstDefiner(MRO(cls), 1, meth)

\* super(c, self).meth for an instance of cls.
SuperOf(c, cls, meth) ==
    LET seq == MRO(cls)
        i == CHOOSE k \in 1..Len(seq) : seq[k] = c
    IN  FirstDefiner(seq, i + 1, meth)

\* ------------------------------------------------------- call outcomes
NoValue == "none"
\* A returned value, with the arguments numpy.log was called on and the
\* divisors that were divided by while computing it.
Ok(v, logs, divs) == [status |-> "ok", value |-> v, logs |-> logs, divs |-> divs]
Raise(e) == [status |-> e, value |-> NoValue, logs |-> {}, divs |-> {}]

NoObj == [cls |-> "None"]
\* The dict objects: "m" is the caller's mapping, "d" the dict Choice builds,
\* "c" the copy the choices property made last.
Refs == {"m", "d", "c"}
NoRef == "none"
NoMuts == [m |-> 0, r |-> 0]

\* ------------------------------------------------------ decorated objects
\* The objects distributions get applied to: a function, a class and a
\* subclass of that class.  None is what a call without return value yields.
Targets == {"fuu", "Base", "Derived"}
None == "None"
Parent(t) == IF t = "Derived" THEN "Base" ELSE None

\* Distribution instances and the parameter name each was created with.
DistIds == {"d1", "d2", "d3"}
ParamName(d) == IF d = "d3" THEN "other" ELSE "test"
ParamNames == {ParamName(d) : d \in DistIds}

\* An object's own _hyperparameters attribute: absent, or a set.
Absent == [present |-> FALSE, items |-> {}]
Attr(set) == [present |-> TRUE, items |-> set]
Unbound == "unbound"
NeverApplied == [t \in Targets |-> [n \in ParamNames |-> NoValue]]

\* ------------------------------------------------------- pipeline nodes
\* A node has a name, a parameter space and, unless it is a plain
\* PipelineNode, an input and an output type; reading a type a node does
\* not have raises AttributeError.
Missing == "missing"
Types == {"Any", "in", "out"}
NodeNames == {"one", "two"}
Spaces == {"s1", "s2"}
Nodes ==
    [name : NodeNames, input_type : Types \cup {Missing},
     output_type : Types \cup {Missing}, space : Spaces]

\* --------------------------------------------------- node implementations
\* Names are sequences of characters, so that formatting them is computed.
NodeIdents == {<<"a">>, <<"a", "_", "b">>}
ParamIdents == {<<"b">>, <<"c">>, <<"b", "_", "c">>}
Self == <<"s", "e", "l", "f">>

\* A Python value is given by its type and, for a number, its magnitude;
\* True is the int 1 and False the int 0.
PyValue(type, value) == [type |-> type, value |-> value]
PyTrue == PyValue("bool", One)
PyFalse == PyValue("bool", Zero)
PyNone == PyValue("NoneType", Zero)
\* the classes a value is an instance of
TypeBases(type) == IF type = "bool" THEN {"bool", "int"} ELSE {type}
IsInstance(value, type) == type \in TypeBases(value.type)
\* lists cannot be dict keys
Hashable(value) == value.type # "list"

\* The default values the model gives to parameters.
DefaultValues ==
    {PyTrue, PyValue("int", One), PyValue("float", One), PyNone,
     PyValue("list", Zero)}

\* inspect.getfullargspec(class_.__init__): the positional parameters, self
\* first, and the defaults of the last of them.
ArgSpecs ==
    {[args |-> <<Self>> \o a, defaults |-> d] :
        a \in {x \in UNION {[1..n -> ParamIdents] : n \in 0..MaxArgs} :
                  \A i, j \in 1..Len(x) : x[i] = x[j] => i = j},
        d \in UNION {[1..n -> DefaultValues] : n \in 0..MaxArgs}}

\* The class an entry point of the node's name loads: whether one was found,
\* whether it carries a _hyperparameters attribute, whether it inherits its
\* __init__ from a parent class, and that __init__'s signature.
NodeClasses ==
    {[found |-> TRUE, declared |-> h, inherits |-> i, argspec |-> spec] :
        h \in BOOLEAN, i \in BOOLEAN,
        spec \in {x \in ArgSpecs : Len(x.defaults) < Len(x.args)}}
NoNodeClass ==
    [found |-> FALSE, declared |-> FALSE, inherits |-> FALSE,
     argspec |-> [args |-> <<Self>>, defaults |-> <<>>]]

\* The nodes execute is run on: they chain with one another and take part
\* in a run of the pipeline.
ChainNodes == {n \in Nodes : n.input_type = "in" /\ n.output_type = "in"}

\* The keyword arguments of execute map node names to the keyword arguments
\* of that node, given here by the set of their names.
ParamSets == {{}, {"x"}, {"y"}}
KwNames == NodeNames \cup {"three"}
Kwargs == UNION {[D -> ParamSets] : D \in SUBSET KwNames}
\* The data passed along the pipeline: the calls that have worked on it.
Inputs == {<<>>, <<[name |-> "input", parameters |-> {}]>>}

VARIABLES
    heap,   \* the contents of the dict objects
    obj,    \* the instance the constructor call produced, or NoObj
    ctor,   \* the constructor call: class, arguments and outcome
    last,   \* the latest call and its outcome
    ret,    \* the dict object the choices property returned last, or NoRef
    muts,   \* how often the caller mutated its mapping (m) and returned ones (r)
    attrs,  \* each target's own _hyperparameters attribute, or Absent
    bound,  \* the value the class statement of Derived has reached for its name
    stack,  \* the decorators of that class statement applied so far, innermost first
    applied, \* per target and parameter name, the instance applied last
    nodes,  \* the node list of the pipeline
    accepted \* the nodes whose add_node call returned without raising, in call order

decoVars == <<attrs, bound, stack, applied>>
pipeVars == <<nodes, accepted>>
vars == <<heap, obj, ctor, last, ret, muts, decoVars, pipeVars>>

\* A dict is the sequence of its <<key, weight>> items in insertion order.
DictKeys(dict) == {dict[i][1] : i \in 1..Len(dict)}
DictGet(dict, k) == dict[CHOOSE i \in 1..Len(dict) : dict[i][1] = k][2]

\* dict[k] = w: a present key keeps its position, a new one goes last.
DictSet(dict, k, w) ==
    IF k \in DictKeys(dict)
    THEN [i \in 1..Len(dict) |-> IF dict[i][1] = k THEN <<k, w>> ELSE dict[i]]
    ELSE Append(dict, <<k, w>>)

\* del dict[k]
DictDel(dict, k) == SelectSeq(dict, LAMBDA item : item[1] # k)

RECURSIVE SumWeights(_)
SumWeights(dict) ==
    IF dict = <<>> THEN 0 ELSE dict[1][2] + SumWeights(Tail(dict))

\* {c: 1 for c in choices}: a repeated key keeps its first position.
RECURSIVE DictFromList(_)
DictFromList(list) ==
    IF list = <<>> THEN <<>>
    ELSE LET front == DictFromList(SubSeq(list, 1, Len(list) - 1))
             c == list[Len(list)]
         IN  IF c \in DictKeys(front) THEN front ELSE Append(front, <<c, 1>>)

\* ------------------------------------------------------------- QMixin
QMixin_init(self, q) == self @@ [q |-> q]

\* round_to_q multiplying where it should divide and dividing where it
\* should multiply back.
round_to_q_divide(self, value) ==
    RDiv(FromInt(NumpyRound(RDiv(value, self.q))), self.q)

\* numpy.round leaves an infinite quotient as it is.
round_to_q(self, value) ==
    LET quotient == RDiv(value, self.q)
    IN  RMul(IF quotient.d = 0 THEN quotient ELSE FromInt(NumpyRound(quotient)),
             self.q)

\* --------------------------------------------------------- constructors
\* Uniform.__init__ rejecting only min_value > max_value: an empty interval
\* then reaches the division 1 / (max_value - min_value).
Uniform_init_strict(cls, name, min_value, max_value) ==
    IF RLt(max_value, min_value)
    THEN [status |-> "ValueError", obj |-> NoObj]
    ELSE IF max_value = min_value
    THEN [status |-> "ZeroDivisionError", obj |-> NoObj]
    ELSE [status |-> "ok",
          obj |-> [cls |-> cls, name |-> name,
                   min_value |-> min_value, max_value |-> max_value,
                   probability |-> RDiv(One, RSub(max_value, min_value))]]

\* Uniform.__init__ keeping the width of the interval as the probability.
Uniform_init_width(cls, name, min_value, max_value) ==
    IF RLeq(max_value, min_value)
    THEN [status |-> "ValueError", obj |-> NoObj]
    ELSE [status |-> "ok",
          obj |-> [cls |-> cls, name |-> name,
                   min_value |-> min_value, max_value |-> max_value,
                   probability |-> RSub(max_value, min_value)]]

Uniform_init(cls, name, min_value, max_value) ==
    IF RLeq(max_value, min_value)
    THEN [status |-> "ValueError", obj |-> NoObj]
    ELSE [status |-> "ok",
          obj |-> [cls |-> cls, name |-> name,
                   min_value |-> min_value, max_value |-> max_value,
                   probability |-> RDiv(One, RSub(max_value, min_value))]]

QUniform_init(cls, name, min_value, max_value, q) ==
    LET u == Uniform_init(cls, name, min_value, max_value)
    IN  IF u.status # "ok" THEN u
        ELSE [status |-> "ok", obj |-> QMixin_init(u.obj, q)]

\* LogUniform.__init__ without its own positivity check.
LogUniform_init_unchecked(cls, name, min_value, max_value) ==
    LET u == Uniform_init(cls, name, min_value, max_value)
    IN  IF u.status # "ok" THEN u
        ELSE [status |-> "ok",
              obj |-> u.obj @@ [min_log |-> IF RLt(Zero, min_value)
                                            THEN NumpyLog(min_value) ELSE "nan",
                                max_log |-> IF RLt(Zero, max_value)
                                            THEN NumpyLog(max_value) ELSE "nan"]]

LogUniform_init(cls, name, min_value, max_value) ==
    IF RLeq(min_value, Zero)
    THEN [status |-> "ValueError", obj |-> NoObj]
    ELSE LET u == Uniform_init(cls, name, min_value, max_value)
         IN  IF u.status # "ok" THEN u
             ELSE [status |-> "ok",
                   obj |-> u.obj @@ [min_log |-> NumpyLog(min_value),
                                     max_log |-> NumpyLog(max_value)]]

QLogUniform_init(cls, name, min_value, max_value, q) ==
    LET u == LogUniform_init(cls, name, min_value, max_value)
    IN  IF u.status # "ok" THEN u
        ELSE [status |-> "ok", obj |-> QMixin_init(u.obj, q)]

Normal_init(cls, name, loc, scale) ==
    [status |-> "ok",
     obj |-> [cls |-> cls, name |-> name, loc |-> loc, scale |-> scale]]

QNormal_init(cls, name, loc, scale, q) ==
    [status |-> "ok", obj |-> QMixin_init(Normal_init(cls, name, loc, scale).obj, q)]

QLogNormal_init(cls, name, loc, scale, q) ==
    [status |-> "ok", obj |-> QMixin_init(Normal_init(cls, name, loc, scale).obj, q)]

\* WeightedChoice.__init__ taking the number of choices for the weight sum.
WeightedChoice_init_count(cls, name, ref, dict) ==
    [status |-> "ok",
     obj |-> [cls |-> cls, name |-> name, choices |-> ref,
              weight_sum |-> Len(dict)]]

\* choices is kept by reference (ref); its weights are summed once, here.
WeightedChoice_init(cls, name, ref, dict) ==
    [status |-> "ok",
     obj |-> [cls |-> cls, name |-> name, choices |-> ref,
              weight_sum |-> SumWeights(dict)]]

\* Choice.__init__ weighting each value by the number of its occurrences.
Choice_dict_counting(choices) ==
    LET list == IF choices.isList THEN choices.items ELSE <<choices.items[1]>>
        slots == DictFromList(list)
    IN  [i \in 1..Len(slots) |->
            <<slots[i][1],
              Cardinality({j \in 1..Len(list) : list[j] = slots[i][1]})>>]

\* The dict Choice.__init__ builds from its argument, a list or a single value.
Choice_dict(choices) ==
    DictFromList(IF choices.isList THEN choices.items
                 ELSE <<choices.items[1]>>)

Choice_init(cls, name, choices) ==
    WeightedChoice_init(cls, name, "d", Choice_dict(choices))

\* --------------------------------------------------------- method bodies
RECURSIVE Body(_, _, _, _)

Distribution_pdf(self, x) == Raise("NotImplementedError")

Distribution_mean(self) == Raise("NotImplementedError")

\* Uniform.pdf with the boundaries excluded.
Uniform_pdf_open(self, x) ==
    Ok(IF RLt(self.min_value, x) /\ RLt(x, self.max_value)
       THEN self.probability ELSE Zero, {}, {})

Uniform_pdf(self, x) ==
    Ok(IF RLeq(self.min_value, x) /\ RLeq(x, self.max_value)
       THEN self.probability ELSE Zero, {}, {})

Uniform_mean(self) ==
    Ok(RMul(R(1, 2), RAdd(self.min_value, self.max_value)), {}, {})

\* LogUniform.pdf without the factor x in the divisor.
LogUniform_pdf_nox(self, x) ==
    IF RLeq(Zero, x) /\ RLeq(self.min_value, x) /\ RLeq(x, self.max_value)
    THEN LET divisor == RSub(self.max_log, self.min_log)
         IN  Ok(RDiv(One, divisor), {}, {divisor})
    ELSE Ok(Zero, {}, {})

LogUniform_pdf(self, x) ==
    IF RLeq(Zero, x) /\ RLeq(self.min_value, x) /\ RLeq(x, self.max_value)
    THEN LET divisor == RMul(x, RSub(self.max_log, self.min_log))
         IN  Ok(RDiv(One, divisor), {}, {divisor})
    ELSE Ok(Zero, {}, {})

LogUniform_mean(self) ==
    LET divisor == RSub(self.max_log, self.min_log)
    IN  Ok(RDiv(RSub(self.max_value, self.min_value), divisor), {}, {divisor})

Normal_pdf(self, x) ==
    LET twoVar == RMul(FromInt(2), RMul(self.scale, self.scale))
        dev == RSub(x, self.loc)
    IN  Ok(GaussValue(twoVar, RDiv(RNeg(RMul(dev, dev)), twoVar), One),
           {}, {twoVar})

\* LogNormal.pdf computing the quotient first and selecting afterwards.
LogNormal_pdf_eager(self, x) ==
    IF RLt(Zero, x)
    THEN LET r == Body(SuperOf("LogNormal", self.cls, "pdf"), "pdf", self, NumpyLog(x))
         IN  IF r.status # "ok" THEN r
             ELSE Ok([r.value EXCEPT !.over = RMul(@, x)],
                     r.logs \cup {x}, r.divs \cup {x})
    ELSE Ok(Zero, {x}, {x})

LogNormal_pdf(self, x) ==
    IF RLt(Zero, x)
    THEN LET r == Body(SuperOf("LogNormal", self.cls, "pdf"), "pdf", self, NumpyLog(x))
         IN  IF r.status # "ok" THEN r
             ELSE Ok([r.value EXCEPT !.over = RMul(@, x)],
                     r.logs \cup {x}, r.divs \cup {x})
    ELSE Ok(Zero, {}, {})

LogNormal_mean(self) ==
    Ok(NumpyExp(RAdd(self.loc, RDiv(RMul(self.scale, self.scale), FromInt(2)))),
       {}, {})

\* return self.round_to_q(<the outcome r of the super call>)
RoundOutcome(self, r) ==
    IF r.status # "ok" THEN r
    ELSE Ok(round_to_q(self, r.value), r.logs, r.divs)

\* QUniform.pdf comparing round(x / q), not brought back to the scale of x,
\* with the bounds.
QUniform_pdf_index(self, x) ==
    Body(SuperOf("QUniform", self.cls, "pdf"), "pdf", self,
         FromInt(NumpyRound(RDiv(x, self.q))))

QUniform_pdf(self, x) ==
    Body(SuperOf("QUniform", self.cls, "pdf"), "pdf", self, round_to_q(self, x))

QUniform_mean(self) ==
    RoundOutcome(self, Body(SuperOf("QUniform", self.cls, "mean"), "mean", self, NoValue))

\* QLogUniform.pdf delegating to the plain Uniform density.
QLogUniform_pdf_plain(self, x) ==
    Body("Uniform", "pdf", self, round_to_q(self, x))

QLogUniform_pdf(self, x) ==
    Body(SuperOf("QLogUniform", self.cls, "pdf"), "pdf", self, round_to_q(self, x))

QLogUniform_mean(self) ==
    RoundOutcome(self,
                 Body(SuperOf("QLogUniform", self.cls, "mean"), "mean", self, NoValue))

QNormal_pdf(self, x) ==
    Body(SuperOf("QNormal", self.cls, "pdf"), "pdf", self, round_to_q(self, x))

QLogNormal_pdf(self, x) ==
    Body(SuperOf("QLogNormal", self.cls, "pdf"), "pdf", self, round_to_q(self, x))

QLogNormal_mean(self) ==
    RoundOutcome(self,
                 Body(SuperOf("QLogNormal", self.cls, "mean"), "mean", self, NoValue))

\* WeightedChoice.pdf dividing by the number of choices.
WeightedChoice_pdf_count(self, x) ==
    IF x \notin DictKeys(heap[self.choices])
    THEN Ok(Zero, {}, {})
    ELSE Ok(R(DictGet(heap[self.choices], x), Len(heap[self.choices])),
            {}, {FromInt(Len(heap[self.choices]))})

WeightedChoice_pdf(self, x) ==
    IF x \notin DictKeys(heap[self.choices])
    THEN Ok(Zero, {}, {})
    ELSE IF self.weight_sum = 0
         THEN Raise("ZeroDivisionError")
         ELSE Ok(R(DictGet(heap[self.choices], x), self.weight_sum),
                 {}, {FromInt(self.weight_sum)})

\* The choices property handing out the instance's own dict.
WeightedChoice_choices_shared(self) ==
    [ref |-> self.choices, heap |-> heap]

\* The choices property: a copy of the dict, a new object on every access.
WeightedChoice_choices(self) ==
    [ref |-> "c", heap |-> [heap EXCEPT !["c"] = heap[self.choices]]]

\* The body of method meth as class c defines it, run on self.
Body(c, meth, self, x) ==
    CASE c = "Distribution" /\ meth = "pdf" -> Distribution_pdf(self, x)
      [] c = "Distribution" /\ meth = "mean" -> Distribution_mean(self)
      [] c = "Uniform" /\ meth = "pdf" -> Uniform_pdf(self, x)
      [] c = "Uniform" /\ meth = "mean" -> Uniform_mean(self)
      [] c = "QUniform" /\ meth = "pdf" -> QUniform_pdf(self, x)
      [] c = "QUniform" /\ meth = "mean" -> QUniform_mean(self)
      [] c = "LogUniform" /\ meth = "pdf" -> LogUniform_pdf(self, x)
      [] c = "LogUniform" /\ meth = "mean" -> LogUniform_mean(self)
      [] c = "QLogUniform" /\ meth = "pdf" -> QLogUniform_pdf(self, x)
      [] c = "QLogUniform" /\ meth = "mean" -> QLogUniform_mean(self)
      [] c = "Normal" /\ meth = "pdf" -> Normal_pdf(self, x)
      [] c = "QNormal" /\ meth = "pdf" -> QNormal_pdf(self, x)
      [] c = "LogNormal" /\ meth = "pdf" -> LogNormal_pdf(self, x)
      [] c = "LogNormal" /\ meth = "mean" -> LogNormal_mean(self)
      [] c = "QLogNormal" /\ meth = "pdf" -> QLogNormal_pdf(self, x)
      [] c = "QLogNormal" /\ meth = "mean" -> QLogNormal_mean(self)
      [] c = "WeightedChoice" /\ meth = "pdf" -> WeightedChoice_pdf(self, x)

\* self.meth(x)
Invoke(self, meth, x) == Body(Resolve(self.cls, meth), meth, self, x)

\* ------------------------------------------------ Distribution.__call__
\* Distribution.__eq__: by parameter name, against a distribution or a string.
Distribution_eq(self, other) ==
    IF other \in DistIds THEN ParamName(self) = ParamName(other)
    ELSE ParamName(self) = other

\* A set of distributions, which hash and compare by parameter name.
SetIn(set, key) == \E e \in set : Distribution_eq(e, key)
SetRemove(set, key) == {e \in set : ~Distribution_eq(e, key)}
SetAdd(set, d) == IF SetIn(set, d) THEN set ELSE set \cup {d}

\* hasattr / getattr of _hyperparameters: the object's own attribute, else
\* the one of its base class.
HasAttr(a, t) ==
    \/ a[t].present
    \/ Parent(t) # None /\ a[Parent(t)].present

GetAttr(a, t) == IF a[t].present THEN a[t].items ELSE a[Parent(t)].items

\* Distribution.__call__ adding self next to an instance of the same name.
Distribution_call_keep(self, target) ==
    IF target = None
    THEN [status |-> "AttributeError", attrs |-> attrs, value |-> NoValue]
    ELSE LET created == IF HasAttr(attrs, target) THEN attrs
                        ELSE [attrs EXCEPT ![target] = Attr({})]
             parameters == GetAttr(created, target)
         IN  [status |-> "ok",
              attrs |-> [created EXCEPT ![target] = Attr(SetAdd(parameters, self))],
              value |-> None]

\* Distribution.__call__ without the copy: an inherited set is changed in
\* place and then also bound to the object.
Distribution_call_inplace(self, target) ==
    IF target = None
    THEN [status |-> "AttributeError", attrs |-> attrs, value |-> NoValue]
    ELSE LET created == IF HasAttr(attrs, target) THEN attrs
                        ELSE [attrs EXCEPT ![target] = Attr({})]
             owner == IF created[target].present THEN target ELSE Parent(target)
             parameters == GetAttr(created, target)
             removed == IF SetIn(parameters, self)
                        THEN SetRemove(parameters, ParamName(self))
                        ELSE parameters
         IN  [status |-> "ok",
              attrs |-> [created EXCEPT ![owner] = Attr(SetAdd(removed, self)),
                                        ![target] = Attr(SetAdd(removed, self))],
              value |-> None]

\* self(obj): registers self on obj; no return statement, so None comes back.
Distribution_call(self, target) ==
    IF target = None
    THEN [status |-> "AttributeError", attrs |-> attrs, value |-> NoValue]
    ELSE LET created == IF HasAttr(attrs, target) THEN attrs
                        ELSE [attrs EXCEPT ![target] = Attr({})]
             parameters == GetAttr(created, target)
             removed == IF SetIn(parameters, self)
                        THEN SetRemove(parameters, ParamName(self))
                        ELSE parameters
         IN  [status |-> "ok",
              attrs |-> [created EXCEPT ![target] = Attr(SetAdd(removed, self))],
              value |-> None]

\* ------------------------------------------------------------- Pipeline
\* Reading node.input_type / node.output_type.
TypeOf(value) ==
    IF value = Missing THEN [status |-> "AttributeError", value |-> NoValue]
    ELSE [status |-> "ok", value |-> value]

\* input_type read from the last node instead of the first.
Pipeline_input_type_last(ns) ==
    IF ns = <<>> THEN [status |-> "ok", value |-> "Any"]
    ELSE TypeOf(ns[Len(ns)].input_type)

Pipeline_input_type(ns) ==
    IF ns = <<>> THEN [status |-> "ok", value |-> "Any"]
    ELSE TypeOf(ns[1].input_type)

Pipeline_output_type(ns) ==
    IF ns = <<>> THEN [status |-> "ok", value |-> "Any"]
    ELSE TypeOf(ns[Len(ns)].output_type)

\* {node.name: node.parameter_space() for node in nodes}: of two nodes with
\* one name the later one stays.
Pipeline_parameter_space(ns) ==
    [n \in {ns[i].name : i \in 1..Len(ns)} |->
        ns[CHOOSE i \in 1..Len(ns) :
              /\ ns[i].name = n
              /\ \A j \in 1..Len(ns) : ns[j].name = n => j <= i].space]

\* node.execute(data, **parameters) of the nodes the pipeline is run on: the
\* node's result is the data it received extended by a record of the call.
\* (PipelineNode declares no execute; the nodes of a pipeline supply it.)
Node_execute(node, data, parameters) ==
    Append(data, [name |-> node.name, parameters |-> parameters])

\* kwargs.get(name, {})
KwGet(kwargs, name) == IF name \in DOMAIN kwargs THEN kwargs[name] ELSE {}

\* execute handing input_data to every node instead of the previous result.
RECURSIVE Pipeline_execute_unchained(_, _, _)
Pipeline_execute_unchained(ns, input_data, kwargs) ==
    IF ns = <<>> THEN input_data
    ELSE IF Len(ns) = 1
    THEN Node_execute(ns[1], input_data, KwGet(kwargs, ns[1].name))
    ELSE Pipeline_execute_unchained(Tail(ns), input_data, kwargs)

\* data = input_data; for node in nodes: data = node.execute(data,
\* **kwargs.get(node.name, {})); return data
RECURSIVE Pipeline_execute(_, _, _)
Pipeline_execute(ns, input_data, kwargs) ==
    IF ns = <<>> THEN input_data
    ELSE Pipeline_execute(Tail(ns),
                          Node_execute(ns[1], input_data,
                                       KwGet(kwargs, ns[1].name)),
                          kwargs)

\* add_node appending first and validating afterwards.
Pipeline_add_node_late(ns, node) ==
    LET out == Pipeline_output_type(ns)
        inp == TypeOf(node.input_type)
    IN  IF out.status # "ok" THEN [status |-> out.status, nodes |-> ns]
        ELSE IF inp.status # "ok"
        THEN [status |-> inp.status, nodes |-> Append(ns, node)]
        ELSE IF out.value \notin {"Any", inp.value}
        THEN [status |-> "ValueError", nodes |-> Append(ns, node)]
        ELSE [status |-> "ok", nodes |-> Append(ns, node)]

Pipeline_add_node(ns, node) ==
    LET out == Pipeline_output_type(ns)
        inp == TypeOf(node.input_type)
    IN  IF out.status # "ok" THEN [status |-> out.status, nodes |-> ns]
        ELSE IF inp.status # "ok" THEN [status |-> inp.status, nodes |-> ns]
        ELSE IF out.value \notin {"Any", inp.value}
        THEN [status |-> "ValueError", nodes |-> ns]
        ELSE [status |-> "ok", nodes |-> Append(ns, node)]

\* --------------------------------------------------------- PipelineNode
PipelineNode_init(node_name, class) ==
    [cls |-> "PipelineNode", name |-> node_name, node_class |-> class]

\* inspect.getmro(self.node_class) without object, as the signatures of
\* class_.__init__: a class that inherits __init__ shows its parent's.
NodeMRO(self) ==
    IF self.node_class.inherits
    THEN <<self.node_class.argspec, self.node_class.argspec>>
    ELSE <<self.node_class.argspec>>

\* zip(argspec.args[-len(argspec.defaults):], argspec.defaults), empty when
\* argspec.defaults is None
DefaultArgs(argspec) ==
    LET k == Len(argspec.defaults)
        n == Len(argspec.args)
    IN  [i \in 1..k |-> <<argspec.args[n - k + i], argspec.defaults[i]>>]

\* the default_args of every class of the MRO, in order
RECURSIVE AllDefaultArgs(_)
AllDefaultArgs(mro) ==
    IF mro = <<>> THEN <<>>
    ELSE DefaultArgs(mro[1]) \o AllDefaultArgs(Tail(mro))

PipelineNode_parameters(self) ==
    LET pairs == AllDefaultArgs(NodeMRO(self))
    IN  {pairs[i][1] : i \in 1..Len(pairs)} \ {Self}

\* A distribution parameter_space creates: the instance and the dict it
\* built, or the exception its constructor raised.
Made(inst, dict) == [status |-> "ok", obj |-> inst, dict |-> dict]
NotMade(e) == [status |-> e, obj |-> NoObj, dict |-> <<>>]

\* Choice(param, choices=list); a value that cannot be hashed cannot become
\* a key of the dict Choice.__init__ builds.
Node_Choice(param, list) ==
    LET choices == [isList |-> TRUE, items |-> list]
    IN  IF \E i \in 1..Len(list) : ~Hashable(list[i])
        THEN NotMade("TypeError")
        ELSE Made(Choice_init("Choice", param, choices).obj,
                  Choice_dict(choices))

\* the distribution chosen for one parameter by the type of its default
DefaultDistribution(param, default) ==
    IF IsInstance(default, "bool")
    THEN Node_Choice(param, <<PyTrue, PyFalse>>)
    ELSE IF IsInstance(default, "float")
    THEN Made(Normal_init("Normal", param, default.value, One).obj, <<>>)
    ELSE IF IsInstance(default, "int")
    THEN Made(QNormal_init("QNormal", param, default.value, One, One).obj, <<>>)
    ELSE Node_Choice(param, <<default>>)

\* space.add(distribution): distributions are equal when their names are.
SpaceAdd(space, made) ==
    IF \E e \in space : e.obj.name = made.obj.name THEN space
    ELSE space \cup {made}

\* the loop over the default_args of parameter_space
RECURSIVE SpaceOf(_, _, _)
SpaceOf(pairs, parameters, space) ==
    IF pairs = <<>> THEN [status |-> "ok", space |-> space]
    ELSE IF pairs[1][1] \notin parameters
    THEN SpaceOf(Tail(pairs), parameters, space)
    ELSE LET made == DefaultDistribution(pairs[1][1], pairs[1][2])
         IN  IF made.status # "ok"
             THEN [status |-> made.status, space |-> {}]
             ELSE SpaceOf(Tail(pairs), parameters, SpaceAdd(space, made))

\* "{node_name}_{parameter}".format(node_name=self.name, parameter=parameter)
PipelineNode_make_parameter_name(self, parameter) ==
    self.name \o <<"_">> \o parameter

NoMapping == [k \in {} |-> NotMade("none")]

\* PipelineNode.parameter_space(): node_class raises ValueError when no
\* entry point has the node's name; a class with _hyperparameters, which
\* Distribution.__call__ makes a set, fails on set.values().
PipelineNode_parameter_space(self) ==
    IF ~self.node_class.found
    THEN [status |-> "ValueError", mapping |-> NoMapping]
    ELSE IF self.node_class.declared
    THEN [status |-> "AttributeError", mapping |-> NoMapping]
    ELSE LET res == SpaceOf(AllDefaultArgs(NodeMRO(self)),
                            PipelineNode_parameters(self), {})
         IN  IF res.status # "ok"
             THEN [status |-> res.status, mapping |-> NoMapping]
             ELSE [status |-> "ok",
                   mapping |->
                      [k \in {PipelineNode_make_parameter_name(self, e.obj.name) :
                                 e \in res.space} |->
                          CHOOSE e \in res.space :
                              PipelineNode_make_parameter_name(self, e.obj.name) = k]]

\* -------------------------------------------------------------- actions
NumericClasses ==
    {"Uniform", "QUniform", "LogUniform", "QLogUniform",
     "Normal", "QNormal", "LogNormal", "QLogNormal"}
ChoiceClasses == {"WeightedChoice", "Choice"}

\* The mappings a caller can pass: distinct keys, insertion ordered.
Dicts ==
    {dict \in UNION {[1..n -> Keys \X Weights] : n \in 0..MaxChoices} :
        \A i, j \in 1..Len(dict) : dict[i][1] = dict[j][1] => i = j}

\* The arguments a caller can pass to Choice: a list (items) or a single
\* value that is not a list (items[1]).
ChoiceArgs ==
    {[isList |-> TRUE, items |-> l] :
        l \in UNION {[1..n -> Keys] : n \in 0..MaxChoices}}
    \cup {[isList |-> FALSE, items |-> <<k>>] : k \in Keys}

EmptyHeap == [r \in Refs |-> <<>>]

Init ==
    /\ heap = EmptyHeap
    /\ obj = NoObj
    /\ ctor = [cls |-> "None"]
    /\ last = [op |-> "none"]
    /\ ret = NoRef
    /\ muts = NoMuts
    /\ attrs = [t \in Targets |-> Absent]
    /\ bound = "Derived"
    /\ stack = <<>>
    /\ applied = NeverApplied
    /\ nodes = <<>>
    /\ accepted = <<>>

\* Each New* action is the one constructor call of a run, obj = <call>: it
\* binds obj to the instance made (NoObj when the call raised), records the
\* call in ctor and leaves in heap the dict objects the call keeps reachable.
NewUniform ==
    \E a \in Vals, b \in Vals :
        LET made == Uniform_init("Uniform", "test", a, b)
        IN  /\ ctor.cls = "None"
            /\ heap' = EmptyHeap
            /\ obj' = made.obj
            /\ ctor' = [cls |-> "Uniform", args |-> [min_value |-> a, max_value |-> b], status |-> made.status]
            /\ last' = [op |-> "none"]
            /\ ret' = NoRef
            /\ muts' = NoMuts
            /\ UNCHANGED <<decoVars, pipeVars>>

NewQUniform ==
    \E a \in Vals, b \in Vals, q \in Qs :
        LET made == QUniform_init("QUniform", "test", a, b, q)
        IN  /\ ctor.cls = "None"
            /\ heap' = EmptyHeap
            /\ obj' = made.obj
            /\ ctor' = [cls |-> "QUniform", args |-> [min_value |-> a, max_value |-> b, q |-> q], status |-> made.status]
            /\ last' = [op |-> "none"]
            /\ ret' = NoRef
            /\ muts' = NoMuts
            /\ UNCHANGED <<decoVars, pipeVars>>

NewLogUniform ==
    \E a \in LogVals, b \in LogVals :
        LET made == LogUniform_init("LogUniform", "test", a, b)
        IN  /\ ctor.cls = "None"
            /\ heap' = EmptyHeap
            /\ obj' = made.obj
            /\ ctor' = [cls |-> "LogUniform", args |-> [min_value |-> a, max_value |-> b], status |-> made.status]
            /\ last' = [op |-> "none"]
            /\ ret' = NoRef
            /\ muts' = NoMuts
            /\ UNCHANGED <<decoVars, pipeVars>>

NewQLogUniform ==
    \E a \in LogVals, b \in LogVals, q \in Qs :
        LET made == QLogUniform_init("QLogUniform", "test", a, b, q)
        IN  /\ ctor.cls = "None"
            /\ heap' = EmptyHeap
            /\ obj' = made.obj
            /\ ctor' = [cls |-> "QLogUniform", args |-> [min_value |-> a, max_value |-> b, q |-> q], status |-> made.status]
            /\ last' = [op |-> "none"]
            /\ ret' = NoRef
            /\ muts' = NoMuts
            /\ UNCHANGED <<decoVars, pipeVars>>

NewNormal ==
    \E loc \in Vals, scale \in Scales :
        LET made == Normal_init("Normal", "test", loc, scale)
        IN  /\ ctor.cls = "None"
            /\ heap' = EmptyHeap
            /\ obj' = made.obj
            /\ ctor' = [cls |-> "Normal", args |-> [loc |-> loc, scale |-> scale], status |-> made.status]
            /\ last' = [op |-> "none"]
            /\ ret' = NoRef
            /\ muts' = NoMuts
            /\ UNCHANGED <<decoVars, pipeVars>>

NewQNormal ==
    \E loc \in Vals, scale \in Scales, q \in Qs :
        LET made == QNormal_init("QNormal", "test", loc, scale, q)
        IN  /\ ctor.cls = "None"
            /\ heap' = EmptyHeap
            /\ obj' = made.obj
            /\ ctor' = [cls |-> "QNormal", args |-> [loc |-> loc, scale |-> scale, q |-> q], status |-> made.status]
            /\ last' = [op |-> "none"]
            /\ ret' = NoRef
            /\ muts' = NoMuts
            /\ UNCHANGED <<decoVars, pipeVars>>

NewLogNormal ==
    \E loc \in Vals, scale \in Scales :
        LET made == Normal_init("LogNormal", "test", loc, scale)
        IN  /\ ctor.cls = "None"
            /\ heap' = EmptyHeap
            /\ obj' = made.obj
            /\ ctor' = [cls |-> "LogNormal", args |-> [loc |-> loc, scale |-> scale], status |-> made.status]
            /\ last' = [op |-> "none"]
            /\ ret' = NoRef
            /\ muts' = NoMuts
            /\ UNCHANGED <<decoVars, pipeVars>>

NewQLogNormal ==
    \E loc \in Vals, scale \in Scales, q \in Qs :
        LET made == QLogNormal_init("QLogNormal", "test", loc, scale, q)
        IN  /\ ctor.cls = "None"
            /\ heap' = EmptyHeap
            /\ obj' = made.obj
            /\ ctor' = [cls |-> "QLogNormal", args |-> [loc |-> loc, scale |-> scale, q |-> q], status |-> made.status]
            /\ last' = [op |-> "none"]
            /\ ret' = NoRef
            /\ muts' = NoMuts
            /\ UNCHANGED <<decoVars, pipeVars>>

NewWeightedChoice ==
    \E dict \in Dicts :
        LET made == WeightedChoice_init("WeightedChoice", "test", "m", dict)
        IN  /\ ctor.cls = "None"
            /\ heap' = [EmptyHeap EXCEPT !["m"] = dict]
            /\ obj' = made.obj
            /\ ctor' = [cls |-> "WeightedChoice", args |-> [choices |-> dict], status |-> made.status]
            /\ last' = [op |-> "none"]
            /\ ret' = NoRef
            /\ muts' = NoMuts
            /\ UNCHANGED <<decoVars, pipeVars>>

NewChoice ==
    \E choices \in ChoiceArgs :
        LET made == Choice_init("Choice", "test", choices)
        IN  /\ ctor.cls = "None"
            /\ heap' = [EmptyHeap EXCEPT !["d"] = Choice_dict(choices)]
            /\ obj' = made.obj
            /\ ctor' = [cls |-> "Choice", args |-> [choices |-> choices], status |-> made.status]
            /\ last' = [op |-> "none"]
            /\ ret' = NoRef
            /\ muts' = NoMuts
            /\ UNCHANGED <<decoVars, pipeVars>>

\* QMixin(q=q), the mixin on its own
NewQMixin ==
    \E q \in SignedQs :
        /\ ctor.cls = "None"
        /\ heap' = EmptyHeap
        /\ obj' = QMixin_init([cls |-> "QMixin"], q)
        /\ ctor' = [cls |-> "QMixin", args |-> [q |-> q], status |-> "ok"]
        /\ last' = [op |-> "none"]
        /\ ret' = NoRef
        /\ muts' = NoMuts
        /\ UNCHANGED <<decoVars, pipeVars>>

\* obj.pdf(x)
Pdf ==
    /\ obj.cls \in NumericClasses \cup ChoiceClasses
    /\ \E x \in (IF obj.cls \in {"LogUniform", "QLogUniform"} THEN LogVals
                ELSE IF obj.cls \in NumericClasses THEN Vals ELSE Queries) :
          last' = [op |-> "pdf", x |-> x, res |-> Invoke(obj, "pdf", x)]
    /\ UNCHANGED <<heap, obj, ctor, ret, muts, decoVars, pipeVars>>

\* obj.mean()
Mean ==
    /\ obj.cls \in NumericClasses \cup ChoiceClasses
    /\ last' = [op |-> "mean", res |-> Invoke(obj, "mean", NoValue)]
    /\ UNCHANGED <<heap, obj, ctor, ret, muts, decoVars, pipeVars>>

\* obj.round_to_q(value), on a quantized distribution or a bare QMixin
RoundToQ ==
    /\ "q" \in DOMAIN obj
    /\ \E value \in Vals :
          last' = [op |-> "round_to_q", x |-> value,
                   res |-> Ok(round_to_q(obj, value), {}, {obj.q})]
    /\ UNCHANGED <<heap, obj, ctor, ret, muts, decoVars, pipeVars>>

\* obj.choices
Choices ==
    /\ obj.cls = "WeightedChoice"
    /\ LET got == WeightedChoice_choices(obj)
       IN  /\ heap' = got.heap
           /\ ret' = got.ref
           /\ last' = [op |-> "choices", res |-> Ok(got.heap[got.ref], {}, {})]
    /\ UNCHANGED <<obj, ctor, muts, decoVars, pipeVars>>

\* m[k] = w by the caller, on the mapping it constructed obj from
CallerSetItem ==
    /\ obj.cls = "WeightedChoice"
    /\ muts.m + muts.r < MaxMutations
    /\ \E k \in Keys, w \in Weights :
          heap' = [heap EXCEPT !["m"] = DictSet(@, k, w)]
    /\ muts' = [muts EXCEPT !.m = @ + 1]
    /\ last' = [op |-> "mutate"]
    /\ UNCHANGED <<obj, ctor, ret, decoVars, pipeVars>>

\* del m[k] by the caller, on the mapping it constructed obj from
CallerDelItem ==
    /\ obj.cls = "WeightedChoice"
    /\ muts.m + muts.r < MaxMutations
    /\ \E k \in DictKeys(heap["m"]) :
          heap' = [heap EXCEPT !["m"] = DictDel(@, k)]
    /\ muts' = [muts EXCEPT !.m = @ + 1]
    /\ last' = [op |-> "mutate"]
    /\ UNCHANGED <<obj, ctor, ret, decoVars, pipeVars>>

\* c[k] = w by the caller, on the mapping obj.choices returned
ReturnedSetItem ==
    /\ ret # NoRef
    /\ muts.m + muts.r < MaxMutations
    /\ \E k \in Keys, w \in Weights :
          heap' = [heap EXCEPT ![ret] = DictSet(@, k, w)]
    /\ muts' = [muts EXCEPT !.r = @ + 1]
    /\ last' = [op |-> "mutate"]
    /\ UNCHANGED <<obj, ctor, ret, decoVars, pipeVars>>

\* del c[k] by the caller, on the mapping obj.choices returned
ReturnedDelItem ==
    /\ ret # NoRef
    /\ muts.m + muts.r < MaxMutations
    /\ \E k \in DictKeys(heap[ret]) :
          heap' = [heap EXCEPT ![ret] = DictDel(@, k)]
    /\ muts' = [muts EXCEPT !.r = @ + 1]
    /\ last' = [op |-> "mutate"]
    /\ UNCHANGED <<obj, ctor, ret, decoVars, pipeVars>>

Next ==
    \/ NewUniform
    \/ NewQUniform
    \/ NewLogUniform
    \/ NewQLogUniform
    \/ NewNormal
    \/ NewQNormal
    \/ NewLogNormal
    \/ NewQLogNormal
    \/ NewWeightedChoice
    \/ NewChoice
    \/ NewQMixin
    \/ Pdf
    \/ Mean
    \/ RoundToQ
    \/ Choices

Spec == Init /\ [][Next]_vars

\* A WeightedChoice whose caller goes on mutating the mapping it passed in.
NextAlias ==
    \/ NewWeightedChoice
    \/ Pdf
    \/ CallerSetItem
    \/ CallerDelItem

SpecAlias == Init /\ [][NextAlias]_vars

\* A WeightedChoice whose caller mutates the mappings choices hands out.
NextCopy ==
    \/ NewWeightedChoice
    \/ Pdf
    \/ Choices
    \/ ReturnedSetItem
    \/ ReturnedDelItem

SpecCopy == Init /\ [][NextCopy]_vars

\* dist(target): a distribution applied to an object by a plain call
Call ==
    \E d \in DistIds, t \in Targets :
        LET res == Distribution_call(d, t)
        IN  /\ attrs' = res.attrs
            /\ applied' = [applied EXCEPT ![t][ParamName(d)] = d]
            /\ last' = [op |-> "call", dist |-> d, target |-> t,
                        before |-> attrs[t], status |-> res.status,
                        value |-> res.value]
            /\ UNCHANGED <<heap, obj, ctor, ret, muts, bound, stack, pipeVars>>

\* One more decorator line above "class Derived(Base)": the distribution is
\* called on what the lines below it produced, and the name Derived will be
\* bound to what the topmost call returns.  A call that raises ends the
\* class statement without binding the name.
Decorate ==
    \E d \in DistIds :
        LET res == Distribution_call(d, bound)
        IN  /\ bound # Unbound
            /\ \A i \in 1..Len(stack) : ParamName(stack[i]) # ParamName(d)
            /\ attrs' = res.attrs
            /\ bound' = IF res.status = "ok" THEN res.value ELSE Unbound
            /\ stack' = Append(stack, d)
            /\ applied' = IF res.status = "ok"
                          THEN [applied EXCEPT ![bound][ParamName(d)] = d]
                          ELSE applied
            /\ last' = [op |-> "decorate", dist |-> d, target |-> bound,
                        status |-> res.status, value |-> res.value]
            /\ UNCHANGED <<heap, obj, ctor, ret, muts, pipeVars>>

NextCall ==
    \/ Call
    \/ Decorate

SpecCall == Init /\ [][NextCall]_vars

\* pipeline.add_node(node)
AddNode ==
    \E node \in Nodes :
        LET res == Pipeline_add_node(nodes, node)
        IN  /\ Len(nodes) < MaxNodes
            /\ nodes' = res.nodes
            /\ accepted' = IF res.status = "ok" THEN Append(accepted, node)
                           ELSE accepted
            /\ last' = [op |-> "add_node", node |-> node, before |-> nodes,
                        status |-> res.status]
            /\ UNCHANGED <<heap, obj, ctor, ret, muts, decoVars>>

\* pipeline.input_type
InputType ==
    /\ last' = [op |-> "input_type", res |-> Pipeline_input_type(nodes)]
    /\ UNCHANGED <<heap, obj, ctor, ret, muts, decoVars, pipeVars>>

\* pipeline.output_type
OutputType ==
    /\ last' = [op |-> "output_type", res |-> Pipeline_output_type(nodes)]
    /\ UNCHANGED <<heap, obj, ctor, ret, muts, decoVars, pipeVars>>

\* pipeline.parameter_space()
ParameterSpace ==
    /\ last' = [op |-> "parameter_space",
                mapping |-> Pipeline_parameter_space(nodes)]
    /\ UNCHANGED <<heap, obj, ctor, ret, muts, decoVars, pipeVars>>

NextPipeline ==
    \/ AddNode
    \/ InputType
    \/ OutputType
    \/ ParameterSpace

SpecPipeline == Init /\ [][NextPipeline]_vars

\* pipeline.add_node(node) with a node the pipeline can be run on
AddChainNode ==
    \E node \in ChainNodes :
        LET res == Pipeline_add_node(nodes, node)
        IN  /\ Len(nodes) < MaxNodes
            /\ nodes' = res.nodes
            /\ accepted' = IF res.status = "ok" THEN Append(accepted, node)
                           ELSE accepted
            /\ last' = [op |-> "add_node", node |-> node, before |-> nodes,
                        status |-> res.status]
            /\ UNCHANGED <<heap, obj, ctor, ret, muts, decoVars>>

\* pipeline.execute(input_data, **kwargs)
Execute ==
    \E input_data \in Inputs, kwargs \in Kwargs :
        /\ last' = [op |-> "execute", input_data |-> input_data,
                    kwargs |-> kwargs,
                    result |-> Pipeline_execute(nodes, input_data, kwargs)]
        /\ UNCHANGED <<heap, obj, ctor, ret, muts, decoVars, pipeVars>>

NextExecute ==
    \/ AddChainNode
    \/ Execute

SpecExecute == Init /\ [][NextExecute]_vars

\* node = PipelineNode(node_name), with the class its name resolves to
NewPipelineNode ==
    \E node_name \in NodeIdents, class \in NodeClasses \cup {NoNodeClass} :
        /\ ctor.cls = "None"
        /\ obj' = PipelineNode_init(node_name, class)
        /\ ctor' = [cls |-> "PipelineNode", status |-> "ok"]
        /\ last' = [op |-> "none"]
        /\ UNCHANGED <<heap, ret, muts, decoVars, pipeVars>>

\* node.parameter_space()
NodeParameterSpace ==
    /\ obj.cls = "PipelineNode"
    /\ last' = [op |-> "node_parameter_space",
                res |-> PipelineNode_parameter_space(obj)]
    /\ UNCHANGED <<heap, obj, ctor, ret, muts, decoVars, pipeVars>>

\* node._make_parameter_name(parameter)
MakeParameterName ==
    \E parameter \in ParamIdents :
        /\ obj.cls = "PipelineNode"
        /\ last' = [op |-> "make_parameter_name", parameter |-> parameter,
                    made |-> PipelineNode_make_parameter_name(obj, parameter)]
        /\ UNCHANGED <<heap, obj, ctor, ret, muts, decoVars, pipeVars>>

NextNode ==
    \/ NewPipelineNode
    \/ NodeParameterSpace
    \/ MakeParameterName

SpecNode == Init /\ [][NextNode]_vars

\* ================================================================ claims
QClasses == {"QUniform", "QLogUniform", "QNormal", "QLogNormal"}

\* The unquantized distribution with the shape parameters obj was built from.
Unquantized ==
    CASE ctor.cls = "QUniform" ->
            Uniform_init("Uniform", "test",
                         ctor.args.min_value, ctor.args.max_value).obj
      [] ctor.cls = "QLogUniform" ->
            LogUniform_init("LogUniform", "test",
                            ctor.args.min_value, ctor.args.max_value).obj
      [] ctor.cls = "QNormal" ->
            Normal_init("Normal", "test", ctor.args.loc, ctor.args.scale).obj
      [] ctor.cls = "QLogNormal" ->
            Normal_init("LogNormal", "test", ctor.args.loc, ctor.args.scale).obj

\* round(v / q) * q for the q the constructor was given
RoundToCtorQ(v) ==
    LET quotient == RDiv(v, ctor.args.q)
    IN  RMul(IF quotient.d = 0 THEN quotient ELSE FromInt(NumpyRound(quotient)),
             ctor.args.q)

InClosed(a, x, b) == RLeq(a, x) /\ RLeq(x, b)

C2_QMeanIsRoundedBaseMean ==
    (obj.cls \in QClasses /\ last.op = "mean") =>
        /\ last.res.status = "ok"
        /\ last.res.value =
              RoundToCtorQ(IF obj.cls = "QNormal" THEN ctor.args.loc
                           ELSE Invoke(Unquantized, "mean", NoValue).value)

C7_NormalMeanIsLoc ==
    (obj.cls = "Normal" /\ last.op = "mean") =>
        /\ last.res.status = "ok"
        /\ last.res.value = ctor.args.loc

RECURSIVE IndexWeightSum(_, _)
IndexWeightSum(dict, i) ==
    IF i > Len(dict) THEN 0
    ELSE (i - 1) * dict[i][2] + IndexWeightSum(dict, i + 1)

\* C10: WeightedChoice.mean() returns the key at position
\* round(sum of i * weight_i / weight_sum) in insertion order.
C10_WeightedChoiceMean ==
    (obj.cls = "WeightedChoice" /\ last.op = "mean"
        /\ SumWeights(ctor.args.choices) > 0) =>
        /\ last.res.status = "ok"
        /\ last.res.value =
              ctor.args.choices[
                  1 + NumpyRound(R(IndexWeightSum(ctor.args.choices, 1),
                                   SumWeights(ctor.args.choices)))][1]

C12_RoundToQIdempotent ==
    last.op = "round_to_q" =>
        /\ last.res.status = "ok"
        /\ round_to_q(obj, last.res.value) = last.res.value

\* A bare QMixin with a negative step rounding a value off its lattice to a
\* non-zero multiple.
C12_Witness ==
    /\ obj.cls = "QMixin"
    /\ RLt(obj.q, Zero)
    /\ last.op = "round_to_q"
    /\ last.res.value # last.x
    /\ last.res.value # Zero

\* C13: for every q > 0 and value v, round_to_q(v) is round(v / q) * q with
\* ties going to the even integer: the result is an integer multiple k * q,
\* it differs from v by at most q / 2, and when v lies exactly halfway
\* between two multiples the factor k is even.
C13_RoundToQNearestEven ==
    (last.op = "round_to_q" /\ RLt(Zero, obj.q)) =>
        LET v == last.x
            res == last.res.value
            k == RDiv(res, obj.q)
            half == RDiv(obj.q, FromInt(2))
        IN  /\ last.res.status = "ok"
            /\ k.d = 1
            /\ RLeq(RSub(res, v), half)
            /\ RLeq(RSub(v, res), half)
            /\ (RSub(res, v) = half \/ RSub(v, res) = half) => k.n % 2 = 0
            /\ \A j \in (k.n - 1)..(k.n + 1) :
                  LET other == RMul(FromInt(j), obj.q)
                      dist(a) == IF RLeq(v, a) THEN RSub(a, v) ELSE RSub(v, a)
                  IN  RLeq(dist(res), dist(other))

\* The value q / 2, halfway between 0 * q and 1 * q, rounded down to 0.
C13_Witness ==
    /\ "q" \in DOMAIN obj
    /\ RLt(Zero, obj.q)
    /\ last.op = "round_to_q"
    /\ last.x = RDiv(obj.q, FromInt(2))
    /\ last.res.value = Zero

UniformFamily == {"Uniform", "QUniform", "LogUniform", "QLogUniform"}

\* The mapping behind a choice distribution has only positive weights.
PositiveWeights ==
    \A i \in 1..Len(heap[obj.choices]) : heap[obj.choices][i][2] > 0

PdfAtConstruction(x) ==
    LET m == ctor.args.choices
    IN  IF x \notin DictKeys(m) THEN Ok(Zero, {}, {})
        ELSE IF SumWeights(m) = 0 THEN Raise("ZeroDivisionError")
        ELSE Ok(R(DictGet(m, x), SumWeights(m)), {}, {FromInt(SumWeights(m))})

C19_StackedDecoratorsKeepClass ==
    stack # <<>> =>
        /\ bound = "Derived"
        /\ attrs["Derived"].present
        /\ \A i \in 1..Len(stack) : stack[i] \in attrs["Derived"].items

\* C20: Pipeline.add_node(node) raises ValueError exactly when the
\* pipeline's current output_type is neither "Any" nor equal to
\* node.input_type; when it raises, the node list, input_type, output_type
\* and parameter_space of the pipeline are unchanged, and when it does not
\* raise the node is appended at the end.
C20_AddNodeChecksTypes ==
    last.op = "add_node" =>
        LET out == Pipeline_output_type(last.before)
            inp == TypeOf(last.node.input_type)
        IN  /\ (last.status = "ValueError") <=>
                  /\ out.status = "ok"
                  /\ inp.status = "ok"
                  /\ out.value \notin {"Any", inp.value}
            /\ last.status # "ok" =>
                  /\ nodes = last.before
                  /\ Pipeline_input_type(nodes) = Pipeline_input_type(last.before)
                  /\ Pipeline_output_type(nodes) = out
                  /\ Pipeline_parameter_space(nodes) =
                        Pipeline_parameter_space(last.before)
            /\ last.status = "ok" => nodes = Append(last.before, last.node)

\* A node whose input type differs from the output type of the pipeline's
\* last node was refused with ValueError and the pipeline kept its one node.
C20_Witness ==
    /\ last.op = "add_node"
    /\ last.status = "ValueError"
    /\ Len(nodes) = 1
    /\ nodes[1].output_type = "out"
    /\ last.node.input_type = "in"

\* C21: after any sequence of add_node calls, for every pair of consecutive
\* nodes of the pipeline the input_type of the later node equals the
\* output_type of the node before it.
C21_ConsecutiveTypesMatch ==
    \A i \in 1..(Len(nodes) - 1) :
        nodes[i + 1].input_type = nodes[i].output_type

\* C22: after any sequence of add_node calls, Pipeline.input_type is "Any"
\* if no node has been accepted and otherwise the input_type of the first
\* accepted node, and Pipeline.output_type is "Any" if no node has been
\* accepted and otherwise the output_type of the most recently accepted
\* node; this holds of the pipeline at every moment and of every value the
\* two properties returned.
C22_TypesFollowAcceptedNodes ==
    LET first == IF accepted = <<>> THEN [status |-> "ok", value |-> "Any"]
                 ELSE TypeOf(accepted[1].input_type)
        latest == IF accepted = <<>> THEN [status |-> "ok", value |-> "Any"]
                  ELSE TypeOf(accepted[Len(accepted)].output_type)
    IN  /\ Pipeline_input_type(nodes) = first
        /\ Pipeline_output_type(nodes) = latest
        /\ last.op = "input_type" => last.res = first
        /\ last.op = "output_type" => last.res = latest

\* Two nodes with different input types were accepted, a third call was
\* refused in between or afterwards, and input_type returned the first
\* node's type.
C22_Witness ==
    /\ Len(accepted) = 2
    /\ accepted[1].input_type = "in"
    /\ accepted[2].input_type = "out"
    /\ accepted[2].output_type = "in"
    /\ last.op = "input_type"
    /\ last.res = [status |-> "ok", value |-> "in"]

\* C23: Pipeline.execute(input_data, **kwargs) runs every node exactly once
\* in the order the nodes were added: the first node receives input_data,
\* each later node the result of the node before it, each node is called
\* with the keyword arguments kwargs[node.name] (none when kwargs has no
\* entry for that name), and the result of the last node is returned; for
\* an empty pipeline input_data itself is returned.  With nodes that record
\* their call on the data, the result is input_data followed by one record
\* per added node, in the order of addition.
C23_ExecuteRunsNodesInOrder ==
    last.op = "execute" =>
        /\ last.result =
              last.input_data \o
              [i \in 1..Len(accepted) |->
                  [name |-> accepted[i].name,
                   parameters |->
                      IF accepted[i].name \in DOMAIN last.kwargs
                      THEN last.kwargs[accepted[i].name] ELSE {}]]
        /\ accepted = <<>> => last.result = last.input_data

\* A pipeline of the nodes "two" and "one", in that order, was run on
\* non-empty input data with keyword arguments for "one" only.
C23_Witness ==
    /\ last.op = "execute"
    /\ Len(accepted) = 2
    /\ accepted[1].name = "two"
    /\ accepted[2].name = "one"
    /\ DOMAIN last.kwargs = {"one", "three"}
    /\ last.kwargs["one"] = {"x"}
    /\ Len(last.input_data) = 1
    /\ Len(last.result) = 3
    /\ last.result[2] = [name |-> "two", parameters |-> {}]
    /\ last.result[3] = [name |-> "one", parameters |-> {"x"}]

\* C24: Pipeline.parameter_space() contains the parameter spaces of all
\* nodes: for every node accepted by add_node, parameter_space()[node.name]
\* equals that node's own parameter_space(), and there are no other
\* entries; for an empty pipeline the result is the empty mapping.
C24_ParameterSpaceOfAllNodes ==
    last.op = "parameter_space" =>
        /\ DOMAIN last.mapping = {accepted[i].name : i \in 1..Len(accepted)}
        /\ \A i \in 1..Len(accepted) :
              last.mapping[accepted[i].name] = accepted[i].space

\* C25: PipelineNode._make_parameter_name creates a unique name for a
\* parameter: for any two different (node name, parameter name) pairs the
\* produced names differ, so the keys of different nodes' parameter spaces
\* never collide.  Of the name a call produced: no other pair of a node
\* name and a parameter name produces the same one.
C25_ParameterNamesUnique ==
    last.op = "make_parameter_name" =>
        \A node_name \in NodeIdents, parameter \in ParamIdents :
            <<node_name, parameter>> # <<obj.name, last.parameter>> =>
                PipelineNode_make_parameter_name(
                    PipelineNode_init(node_name, obj.node_class), parameter)
                # last.made

\* C28: for a node class without declared hyperparameters,
\* PipelineNode.parameter_space() returns exactly one distribution per
\* constructor parameter that has a default value, keyed
\* "<node_name>_<parameter>", chosen by the default's type: a Choice over
\* [True, False] for a bool default (never QNormal), Normal(loc=default,
\* scale=1.0) for a float, QNormal(loc=default, scale=1.0, q=1) for a
\* non-bool int, and a single-value Choice([default]) otherwise; parameters
\* without a default are omitted.
C28_DefaultSpaceByType ==
    (/\ last.op = "node_parameter_space"
     /\ obj.node_class.found
     /\ ~obj.node_class.declared) =>
        LET args == obj.node_class.argspec.args
            defaults == obj.node_class.argspec.defaults
            first == Len(args) - Len(defaults)
            key(i) == obj.name \o <<"_">> \o args[first + i]
        IN  /\ last.res.status = "ok"
            /\ DOMAIN last.res.mapping = {key(i) : i \in 1..Len(defaults)}
            /\ \A i \in 1..Len(defaults) :
                  LET made == last.res.mapping[key(i)]
                      default == defaults[i]
                  IN  /\ made.obj.name = args[first + i]
                      /\ default.type = "bool" =>
                            /\ made.obj.cls = "Choice"
                            /\ made.dict = <<<<PyTrue, 1>>, <<PyFalse, 1>>>>
                      /\ default.type = "float" =>
                            /\ made.obj.cls = "Normal"
                            /\ made.obj.loc = default.value
                            /\ made.obj.scale = One
                      /\ default.type = "int" =>
                            /\ made.obj.cls = "QNormal"
                            /\ made.obj.loc = default.value
                            /\ made.obj.scale = One
                            /\ made.obj.q = One
                      /\ default.type \notin {"bool", "float", "int"} =>
                            /\ made.obj.cls = "Choice"
                            /\ made.dict = <<<<default, 1>>>>

C27_InheritedParametersKept ==
    [][(last'.op \in {"call", "decorate"} /\ last'.status = "ok") =>
          LET t == last'.target
              p == Parent(t)
          IN  (p # None /\ ~attrs[t].present /\ attrs[p].present) =>
                  /\ attrs'[p] = attrs[p]
                  /\ attrs'[t].present
                  /\ last'.dist \in attrs'[t].items
                  /\ \A e \in attrs[p].items :
                        ParamName(e) # ParamName(last'.dist) =>
                            e \in attrs'[t].items
                  /\ attrs'[t].items \subseteq attrs[p].items \cup {last'.dist}
                  /\ {ParamName(e) : e \in attrs'[t].items} =
                        {ParamName(e) : e \in attrs[p].items}
                            \cup {ParamName(last'.dist)}]_vars

\* d3 was applied to Derived, which until then inherited the collection
\* {d1} of Base: Base still holds {d1} and Derived holds its own {d1, d3}.
C27_Witness ==
    /\ last.op = "call"
    /\ last.target = "Derived"
    /\ last.dist = "d3"
    /\ last.before = Absent
    /\ attrs["Base"] = Attr({"d1"})
    /\ attrs["Derived"] = Attr({"d1", "d3"})

RECURSIVE PdfSum(_, _)
PdfSum(dict, i) ==
    IF i > Len(dict) THEN Zero
    ELSE RAdd(Invoke(obj, "pdf", dict[i][1]).value, PdfSum(dict, i + 1))

====
